---- MODULE Spec2Model ----
(***************************************************************************)
(* Model of Scripts/refs-dev-crawler.py: the documentation crawler that    *)
(* loads pages, splits them into chunks, indexes the chunks in batches     *)
(* through the Workers endpoint and offers a search pass-through.          *)
(*                                                                         *)
(* Four specifications share the variables and the actions:               *)
(*   Spec        one run of main(): health probe, crawl_all_sources,       *)
(*               add_documents, the report, the test searches, the save;   *)
(*   SpecCrawl   crawl_all_sources up to its call of add_documents;        *)
(*   SpecIndex   one call of CloudflareVectorIndexer.add_documents on a    *)
(*               list of chunks drawn from a bounded family;               *)
(*   SpecSearch  one call of CloudflareVectorIndexer.search.               *)
(*                                                                         *)
(* Python strings are TLA+ strings, dicts are functions on strings, lists  *)
(* are sequences.  The page loader, the text splitter, the clock and the   *)
(* HTTP endpoints are the environment: their outcomes are chosen with \E.  *)
(***************************************************************************)
EXTENDS Integers, Sequences, FiniteSets, TLC

VARIABLES
    pc,             \* position of the running entry point
    api_token,      \* CloudflareVectorIndexer.api_token
    page_chunks,    \* environment: how many chunks the splitter cuts a loaded page into
    clock,          \* environment: the value the next datetime.utcnow() returns
    clock_step,     \* environment: how far the clock moves between two reads
    lang,           \* crawl_all_sources: index of the language being crawled
    url,            \* crawl_all_sources: index of the next url of that language
    language_docs,  \* crawl_all_sources: language_docs
    all_documents,  \* crawl_all_sources: all_documents
    stats,          \* crawl_all_sources: stats
    visits,         \* log: one entry per load_documentation call, with what the loader did
    calls,          \* log: the argument of each add_documents call made by the crawl
    documents,      \* add_documents: documents
    i,              \* add_documents: the loop variable i
    results,        \* add_documents: results
    requests,       \* log: every requests.post to /embeddings/batch, as the arguments given
    responses,      \* log: what the endpoint did with each of those requests
    ret,            \* the value the last add_documents call returned
    query,          \* search: query (main: the index of the next test query)
    top_k,          \* search: top_k
    next_query,     \* main: index into test_queries of the next query to try
    search_ret,     \* the value the last direct search call returned
    search_log,     \* log: the request and the outcome of each direct search call
    printed,        \* main: the indexing report printed to the operator
    raised          \* the exception that left the entry point ("" while none has)

vars == <<pc, api_token, page_chunks, clock, clock_step, lang, url, language_docs,
          all_documents, stats, visits, calls, documents, i, results, requests,
          responses, ret, query, top_k, next_query, search_ret, search_log, printed, raised>>

(***************************************************************************)
(* Bounds of the model.                                                    *)
(***************************************************************************)
MaxChunksPerUrl == 2    \* chunks a loaded page splits into (SpecCrawl)
MaxRunChunks == 1       \* chunks a loaded page splits into (Spec)
MaxDocs == 21           \* length of the list handed to add_documents (SpecIndex)
MaxVariety == 2         \* distinct texts or distinct pages in that list (SpecIndex)
MaxTopK == 5            \* top_k of a search call (SpecSearch)
MaxResults == 2         \* results the search endpoint returns

(***************************************************************************)
(* Program constants.                                                      *)
(***************************************************************************)
batch_size == 10
TextLimit == 4096
IndexTimeout == 30
SearchTimeout == 10
ErrorPreview == 5
MainTopK == 3

WORKERS_URL == "https://agents-starter.wmeldman33.workers.dev"

DOCUMENTATION_SOURCES ==
    << [language |-> "swift",
        urls |-> << "https://developer.apple.com/documentation/swift",
                    "https://docs.swift.org/swift-book/",
                    "https://www.swift.org/documentation/" >>],
       [language |-> "python",
        urls |-> << "https://docs.python.org/3/",
                    "https://docs.python.org/3/tutorial/",
                    "https://docs.python.org/3/library/" >>],
       [language |-> "cloudflare",
        urls |-> << "https://developers.cloudflare.com/workers/",
                    "https://developers.cloudflare.com/vectorize/",
                    "https://developers.cloudflare.com/d1/",
                    "https://developers.cloudflare.com/r2/" >>],
       [language |-> "langchain",
        urls |-> << "https://python.langchain.com/docs/get_started/introduction",
                    "https://python.langchain.com/docs/modules/" >>] >>

test_queries == << "Swift async await", "Python decorators", "Cloudflare Workers KV" >>

(***************************************************************************)
(* Helpers for Python values.                                              *)
(***************************************************************************)
Min(a, b) == IF a <= b THEN a ELSE b

\* d.get(k, default)
Get(d, k, default) == IF k \in DOMAIN d THEN d[k] ELSE default

\* {**d, **e}: e's keys override d's
Merge(d, e) == [k \in DOMAIN d \cup DOMAIN e |-> IF k \in DOMAIN e THEN e[k] ELSE d[k]]

\* {}
EmptyDict == [k \in {} |-> ""]

\* a header value: a str, or None
PyStr(s) == [type |-> "str", value |-> s]
PyNone == [type |-> "NoneType"]

\* s[:n]
Truncate(s, n) == IF Len(s) <= n THEN s ELSE SubSeq(s, 1, n)

\* datetime.isoformat() of clock value t
isoformat(t) == "2026-01-01T00:00:00.00000" \o ToString(t)

(***************************************************************************)
(* generate_embedding_id (lines 74-77).                                    *)
(***************************************************************************)
\* Every metadata key of the program, in the order sort_keys=True emits them.
SortedKeys == << "doc_type", "indexed_at", "language", "source", "source_url", "title" >>

RECURSIVE JsonPairs(_, _, _)
JsonPairs(metadata, k, first) ==
    IF k > Len(SortedKeys) THEN ""
    ELSE IF SortedKeys[k] \notin DOMAIN metadata THEN JsonPairs(metadata, k + 1, first)
    ELSE (IF first THEN "" ELSE ", ")
         \o "\"" \o SortedKeys[k] \o "\": \"" \o metadata[SortedKeys[k]] \o "\""
         \o JsonPairs(metadata, k + 1, FALSE)

\* json.dumps(metadata, sort_keys=True)
json_dumps_sorted(metadata) == "{" \o JsonPairs(metadata, 1, TRUE) \o "}"

\* hashlib.sha256(content.encode()).hexdigest()[:16], the hash taken as
\* collision-free: the digest stands for the content and for nothing else.
sha256_hex16(content) == [sha256_16 |-> content]

generate_embedding_id_with_time(text, metadata) ==
    sha256_hex16(text \o json_dumps_sorted(Merge(metadata, [indexed_at |-> isoformat(clock)])))

generate_embedding_id(text, metadata) ==
    sha256_hex16(text \o json_dumps_sorted(metadata))

(***************************************************************************)
(* load_documentation (lines 181-210): the loader's document for a url,    *)
(* the collector's metadata, the splitter's chunks.                        *)
(***************************************************************************)
\* What WebBaseLoader(url).load() returns when it does not raise: one
\* document, whose metadata the loader fills in itself.
LoaderDocs(u, text) ==
    << [page_content |-> text,
        metadata |-> [source |-> u, title |-> "Documentation", language |-> "en"]] >>

\* doc.metadata.update({...}), lines 195-199
update_metadata(metadata, language, u) ==
    Merge(metadata, [language |-> language, source_url |-> u, doc_type |-> "reference"])

\* self.text_splitter.split_documents([doc]) cutting the page into n chunks:
\* every chunk carries a piece of the text and the document's metadata.
split_documents(doc, n) ==
    [j \in 1..n |-> [page_content |-> doc.page_content \o " [part " \o ToString(j) \o "]",
                     metadata |-> doc.metadata]]

RECURSIVE SplitAll(_, _, _, _, _)
SplitAll(raw_docs, k, language, u, n) ==
    IF k > Len(raw_docs) THEN << >>
    ELSE split_documents([page_content |-> raw_docs[k].page_content,
                          metadata |-> update_metadata(raw_docs[k].metadata, language, u)], n)
         \o SplitAll(raw_docs, k + 1, language, u, n)

\* The text of the page at u, and the texts the splitter cuts it into
PageText(u) == "page of " \o u

PieceTexts(u, n) ==
    [j \in 1..n |-> split_documents([page_content |-> PageText(u), metadata |-> EmptyDict],
                                    n)[j].page_content]

\* The value load_documentation returns: the except clause of line 207 leaves
\* documents as it stands when the loader raises, which is empty.
load_documentation(u, language, loaded, n) ==
    IF loaded THEN SplitAll(LoaderDocs(u, PageText(u)), 1, language, u, n)
    ELSE << >>

(***************************************************************************)
(* add_documents (lines 79-141).                                           *)
(***************************************************************************)
\* documents[i:i + batch_size]
Batch_overlapping(docs, start) == SubSeq(docs, start + 1, Min(start + batch_size + 1, Len(docs)))

Batch(docs, start) == SubSeq(docs, start + 1, Min(start + batch_size, Len(docs)))

\* Lines 95-104 with the id taken over the stamped metadata
IndexableUnit_stamped_id(doc, t) ==
    [id |-> generate_embedding_id(doc.page_content,
                                  Merge(doc.metadata, [indexed_at |-> isoformat(t),
                                                       source |-> "refs_dev_crawler"])),
     text |-> Truncate(doc.page_content, TextLimit),
     metadata |-> Merge(doc.metadata,
                        [indexed_at |-> isoformat(t), source |-> "refs_dev_crawler"])]

\* One entry of batch_documents (lines 95-104); t is what utcnow() returned.
IndexableUnit(doc, t) ==
    [id |-> generate_embedding_id(doc.page_content, doc.metadata),
     text |-> Truncate(doc.page_content, TextLimit),
     metadata |-> Merge(doc.metadata,
                        [indexed_at |-> isoformat(t), source |-> "refs_dev_crawler"])]

\* batch_documents: the j-th unit is stamped by the j-th clock read of the batch
batch_documents(batch, t, step) ==
    [j \in 1..Len(batch) |-> IndexableUnit(batch[j], t + (j - 1) * step)]

\* headers= of the post (lines 115-118)
index_headers(token) ==
    [k \in {"Content-Type", "Authorization"} |->
        IF k = "Content-Type" THEN PyStr("application/json")
        ELSE IF token # "" THEN PyStr("Bearer " \o token) ELSE PyNone]

\* The arguments of requests.post (lines 108-120)
index_request(batch, token, t, step) ==
    [url |-> WORKERS_URL \o "/embeddings/batch",
     json |-> [documents |-> batch_documents(batch, t, step),
               namespace |-> "documentation",
               source |-> "refs_dev_crawler"],
     headers |-> index_headers(token),
     timeout |-> IndexTimeout]

\* What the endpoint can do with a request.  raises # "" is a transport
\* exception out of requests.post; body.valid = FALSE is a body response.json()
\* cannot parse; body.object = FALSE is JSON that is not an object.
Response(status, text, body) == [raises |-> "", status_code |-> status, text |-> text, body |-> body]
Raises(msg) == [raises |-> msg, status_code |-> 0, text |-> "", body |-> [valid |-> FALSE]]
JsonObject(fields) == [valid |-> TRUE, object |-> TRUE, fields |-> fields]
JsonArray == [valid |-> TRUE, object |-> FALSE]
NotJson == [valid |-> FALSE]

IndexResponses ==
    { Response(200, "{\"success\": true}", JsonObject([success |-> TRUE])),
      Response(200, "{\"success\": false, \"error\": \"index is full\"}",
               JsonObject([success |-> FALSE, error |-> "index is full"])),
      Response(200, "{\"success\": false}", JsonObject([success |-> FALSE])),
      Response(200, "[]", JsonArray),
      Response(200, "<html>", NotJson),
      Response(500, "Internal Server Error", NotJson),
      Raises("Read timed out. (read timeout=30)") }

\* response.json(): the parsed body, or the exception it raises
json_exc(resp) == IF resp.body.valid THEN "" ELSE "Expecting value: line 1 column 1 (char 0)"

\* result.get(...) on a body that is not a dict
get_exc(body) == IF body.object THEN "" ELSE "'list' object has no attribute 'get'"

\* The exception that reaches the except clause of line 136 ("" when none does)
index_exc(resp) ==
    IF resp.raises # "" THEN resp.raises
    ELSE IF resp.status_code # 200 THEN ""
    ELSE IF json_exc(resp) # "" THEN json_exc(resp)
    ELSE get_exc(resp.body)

\* Lines 122-139 with one element counted for a batch that raised
interpret_one_failed(res, batch, resp) ==
    IF index_exc(resp) # ""
    THEN [res EXCEPT !.failed = @ + 1, !.errors = Append(@, index_exc(resp))]
    ELSE IF resp.status_code = 200
    THEN IF Get(resp.body.fields, "success", FALSE)
         THEN [res EXCEPT !.success = @ + Len(batch)]
         ELSE [res EXCEPT !.failed = @ + Len(batch),
                          !.errors = Append(@, Get(resp.body.fields, "error", "Unknown error"))]
    ELSE [res EXCEPT !.failed = @ + Len(batch),
                     !.errors = Append(@, "HTTP " \o ToString(resp.status_code) \o ": " \o resp.text)]

\* Lines 122-139 with an except clause that counts the batch and appends
\* nothing (the other branches are those of the code)
interpret_silent_exception(res, batch, resp) ==
    IF index_exc(resp) # ""
    THEN [res EXCEPT !.failed = @ + Len(batch)]
    ELSE interpret_one_failed(res, batch, resp)

\* Lines 122-139: the results after the response to one batch
interpret(res, batch, resp) ==
    IF index_exc(resp) # ""
    THEN [res EXCEPT !.failed = @ + Len(batch), !.errors = Append(@, index_exc(resp))]
    ELSE IF resp.status_code = 200
    THEN IF Get(resp.body.fields, "success", FALSE)
         THEN [res EXCEPT !.success = @ + Len(batch)]
         ELSE [res EXCEPT !.failed = @ + Len(batch),
                          !.errors = Append(@, Get(resp.body.fields, "error", "Unknown error"))]
    ELSE [res EXCEPT !.failed = @ + Len(batch),
                     !.errors = Append(@, "HTTP " \o ToString(resp.status_code) \o ": " \o resp.text)]

\* Lines 81-85
empty_results == [success |-> 0, failed |-> 0, errors |-> << >>]

(***************************************************************************)
(* search (lines 143-166).                                                 *)
(***************************************************************************)
\* The arguments of requests.post (lines 146-155)
search_request(q, k) ==
    [url |-> WORKERS_URL \o "/embeddings/search",
     json |-> [query |-> q, topK |-> k, namespace |-> "documentation"],
     headers |-> [k2 \in {"Content-Type"} |-> PyStr("application/json")],
     timeout |-> SearchTimeout]

ResultList(n) == [j \in 1..n |-> [id |-> "doc" \o ToString(j), score |-> 100 - j]]

SearchResponses(k) ==
    { Response(200, "{\"results\": [...]}", JsonObject([results |-> ResultList(n)])) :
        n \in 0..Min(k, MaxResults) }
    \cup
    { Response(200, "{}", JsonObject(EmptyDict)),
      Response(200, "[]", JsonArray),
      Response(200, "<html>", NotJson),
      Response(404, "Not Found", NotJson),
      Response(500, "Internal Server Error", NotJson),
      Raises("Read timed out. (read timeout=10)"),
      Raises("Connection refused") }

\* The try block of lines 146-162: the value it returns, or the exception
\* that leaves it.
search_try(resp) ==
    IF resp.raises # "" THEN [exc |-> resp.raises, value |-> << >>]
    ELSE IF resp.status_code = 200
    THEN IF json_exc(resp) # "" THEN [exc |-> json_exc(resp), value |-> << >>]
         ELSE IF get_exc(resp.body) # "" THEN [exc |-> get_exc(resp.body), value |-> << >>]
         ELSE [exc |-> "", value |-> Get(resp.body.fields, "results", << >>)]
    ELSE [exc |-> "", value |-> << >>]

\* search without its except clause
search_unguarded(resp) == search_try(resp)

\* search: the try block under the except clause of lines 164-166
search(resp) ==
    IF search_try(resp).exc # "" THEN [exc |-> "", value |-> << >>] ELSE search_try(resp)

(***************************************************************************)
(* crawl_all_sources (lines 212-245) and main (lines 267-350).             *)
(***************************************************************************)
\* stats as created at lines 215-219
initial_stats == [languages |-> EmptyDict, total_documents |-> 0, total_chunks |-> 0]

\* stats["languages"][language] = len(language_docs)
record_language(st, language, docs) ==
    [st EXCEPT !.languages = Merge(@, [k \in {language} |-> Len(docs)])]

\* all_documents.extend(language_docs)
extend_all_overwriting(all, docs) == docs

extend_all(all, docs) == all \o docs

\* Line 243: the indexing entry when there is nothing to index
no_documents_result == [success |-> 0, failed |-> 0]

\* Lines 311-319: what main prints of the indexing entry, and the exception
\* the lookup of 'errors' raises when the entry has no such key.
report(st) ==
    IF "errors" \in DOMAIN st.indexing
    THEN [exc |-> "",
          out |-> [total_chunks |-> st.total_chunks,
                   success |-> st.indexing.success,
                   failed |-> st.indexing.failed,
                   errors |-> SubSeq(st.indexing.errors, 1,
                                     Min(ErrorPreview, Len(st.indexing.errors)))]]
    ELSE [exc |-> "KeyError: 'errors'",
          out |-> [total_chunks |-> st.total_chunks,
                   success |-> st.indexing.success,
                   failed |-> st.indexing.failed]]

(***************************************************************************)
(* Initial states.                                                         *)
(***************************************************************************)
Tokens == {"", "cf-token"}

\* What no entry point has touched yet
Untouched ==
    /\ lang = 1 /\ url = 1
    /\ language_docs = << >> /\ all_documents = << >>
    /\ stats = initial_stats
    /\ visits = << >> /\ calls = << >>
    /\ i = 0 /\ results = empty_results
    /\ requests = << >> /\ responses = << >>
    /\ ret = empty_results
    /\ next_query = 1
    /\ search_ret = << >> /\ search_log = << >>
    /\ printed = EmptyDict
    /\ raised = ""
    /\ clock = 0

\* The module-level configuration of lines 35-38 with no environment variable
\* set: the token defaults to the empty string
CLOUDFLARE_API_TOKEN == ""

\* main() is started
Init ==
    /\ pc = "health"
    /\ api_token = CLOUDFLARE_API_TOKEN
    /\ page_chunks \in 0..MaxRunChunks
    /\ clock_step = 1
    /\ documents = << >>
    /\ query = "" /\ top_k = MainTopK
    /\ Untouched

\* crawl_all_sources() is called
InitCrawl ==
    /\ pc = "crawl"
    /\ api_token = CLOUDFLARE_API_TOKEN
    /\ page_chunks \in 0..MaxChunksPerUrl
    /\ clock_step = 1
    /\ documents = << >>
    /\ query = "" /\ top_k = MainTopK
    /\ Untouched

\* Two reads of utcnow() fall in the same clock tick, or the clock has moved
ClockSteps == {0, 1}

\* A chunk as load_documentation builds it, with text number t from page number m
IndexChunk(t, m) ==
    [page_content |-> "chunk text " \o ToString(t),
     metadata |-> update_metadata(
                      LoaderDocs("https://docs.example/" \o ToString(m), "")[1].metadata,
                      "python", "https://docs.example/" \o ToString(m))]

\* n chunks over t texts and m pages
ChunkList(n, t, m) ==
    [k \in 1..n |-> IndexChunk(((k - 1) % t) + 1, (((k - 1) \div t) % m) + 1)]

\* add_documents(documents) is called
InitIndex ==
    /\ pc = "add_documents"
    /\ api_token \in Tokens
    /\ page_chunks = 0
    /\ clock_step \in ClockSteps
    /\ \E n \in 0..MaxDocs, t \in 1..MaxVariety, m \in 1..MaxVariety :
          /\ t + m <= MaxVariety + 1
          /\ documents = ChunkList(n, t, m)
    /\ query = "" /\ top_k = MainTopK
    /\ Untouched

SearchQueries == {test_queries[k] : k \in 1..Len(test_queries)} \cup {""}

\* search(query, top_k) is called
InitSearch ==
    /\ pc = "search"
    /\ api_token \in Tokens
    /\ page_chunks = 0
    /\ clock_step = 1
    /\ documents = << >>
    /\ query \in SearchQueries
    /\ top_k \in 1..MaxTopK
    /\ Untouched

(***************************************************************************)
(* Actions.                                                                *)
(***************************************************************************)
\* main, lines 286-295: the health probe; no outcome of it gates the run
MainHealth ==
    /\ pc = "health"
    /\ \E probe \in {"200", "503", "exception"} : pc' = "crawl"
    /\ UNCHANGED <<api_token, page_chunks, clock, clock_step, lang, url, language_docs,
                   all_documents, stats, visits, calls, documents, i, results, requests,
                   responses, ret, query, top_k, next_query, search_ret, search_log,
                   printed, raised>>

\* crawl_all_sources, lines 224-226: one url of the current language
CrawlUrl ==
    /\ pc = "crawl"
    /\ lang <= Len(DOCUMENTATION_SOURCES)
    /\ url <= Len(DOCUMENTATION_SOURCES[lang].urls)
    /\ \E loaded \in BOOLEAN :
          LET language == DOCUMENTATION_SOURCES[lang].language
              u == DOCUMENTATION_SOURCES[lang].urls[url]
          IN /\ language_docs' = language_docs
                                   \o load_documentation(u, language, loaded, page_chunks)
             /\ visits' = Append(visits, [language |-> language, url |-> u,
                                          loaded |-> loaded,
                                          texts |-> IF loaded THEN PieceTexts(u, page_chunks)
                                                    ELSE << >>])
    /\ url' = url + 1
    /\ UNCHANGED <<pc, api_token, page_chunks, clock, clock_step, lang, all_documents,
                   stats, calls, documents, i, results, requests, responses, ret, query,
                   top_k, next_query, search_ret, search_log, printed, raised>>

\* crawl_all_sources, lines 228-231 (and line 222 of the next language)
CrawlLanguageDone ==
    /\ pc = "crawl"
    /\ lang <= Len(DOCUMENTATION_SOURCES)
    /\ url > Len(DOCUMENTATION_SOURCES[lang].urls)
    /\ stats' = record_language(stats, DOCUMENTATION_SOURCES[lang].language, language_docs)
    /\ all_documents' = extend_all(all_documents, language_docs)
    /\ language_docs' = IF lang < Len(DOCUMENTATION_SOURCES) THEN << >> ELSE language_docs
    /\ lang' = lang + 1
    /\ url' = 1
    /\ UNCHANGED <<pc, api_token, page_chunks, clock, clock_step, visits, calls, documents,
                   i, results, requests, responses, ret, query, top_k, next_query,
                   search_ret, search_log, printed, raised>>

\* crawl_all_sources, lines 233-243: the totals, then the call of add_documents
\* or, with nothing to index, the indexing entry of line 243
CrawlIndex ==
    /\ pc = "crawl"
    /\ lang > Len(DOCUMENTATION_SOURCES)
    /\ LET totals == [stats EXCEPT !.total_documents = Len(DOCUMENTATION_SOURCES),
                                   !.total_chunks = Len(all_documents)]
       IN IF all_documents # << >>
          THEN /\ stats' = totals
               /\ calls' = Append(calls, all_documents)
               /\ documents' = all_documents
               /\ i' = 0
               /\ results' = empty_results
               /\ pc' = "add_documents"
          ELSE /\ stats' = Merge(totals, [indexing |-> no_documents_result])
               /\ pc' = "report"
               /\ UNCHANGED <<calls, documents, i, results>>
    /\ UNCHANGED <<api_token, page_chunks, clock, clock_step, lang, url, language_docs,
                   all_documents, visits, requests, responses, ret, query, top_k,
                   next_query, search_ret, search_log, printed, raised>>

\* add_documents, lines 89-139: one batch, built, posted and counted
AddDocumentsBatch ==
    /\ pc = "add_documents"
    /\ i < Len(documents)
    /\ \E resp \in IndexResponses :
          /\ requests' = Append(requests,
                                index_request(Batch(documents, i), api_token, clock, clock_step))
          /\ responses' = Append(responses, resp)
          /\ results' = interpret(results, Batch(documents, i), resp)
    /\ clock' = clock + Len(Batch(documents, i)) * clock_step
    /\ i' = i + batch_size
    /\ UNCHANGED <<pc, api_token, page_chunks, clock_step, lang, url, language_docs,
                   all_documents, stats, visits, calls, documents, ret, query, top_k,
                   next_query, search_ret, search_log, printed, raised>>

\* add_documents, line 141
AddDocumentsReturn ==
    /\ pc = "add_documents"
    /\ i >= Len(documents)
    /\ ret' = results
    /\ pc' = "add_documents_returned"
    /\ UNCHANGED <<api_token, page_chunks, clock, clock_step, lang, url, language_docs,
                   all_documents, stats, visits, calls, documents, i, results, requests,
                   responses, query, top_k, next_query, search_ret, search_log, printed,
                   raised>>

\* crawl_all_sources, lines 239-245: the returned results become stats["indexing"]
CrawlIndexed ==
    /\ pc = "add_documents_returned"
    /\ stats' = Merge(stats, [indexing |-> ret])
    /\ pc' = "report"
    /\ UNCHANGED <<api_token, page_chunks, clock, clock_step, lang, url, language_docs,
                   all_documents, visits, calls, documents, i, results, requests,
                   responses, ret, query, top_k, next_query, search_ret, search_log,
                   printed, raised>>

\* main, lines 301-319: the report
MainReport ==
    /\ pc = "report"
    /\ printed' = report(stats).out
    /\ raised' = report(stats).exc
    /\ pc' = IF report(stats).exc = "" THEN "test_search" ELSE "crashed"
    /\ UNCHANGED <<api_token, page_chunks, clock, clock_step, lang, url, language_docs,
                   all_documents, stats, visits, calls, documents, i, results, requests,
                   responses, ret, query, top_k, next_query, search_ret, search_log>>

\* main, lines 329-337: one test query; what search returns is printed and
\* dropped, what it raises leaves main
MainSearch ==
    /\ pc = "test_search"
    /\ next_query <= Len(test_queries)
    /\ query' = test_queries[next_query]
    /\ top_k' = MainTopK
    /\ \E resp \in SearchResponses(MainTopK) :
          /\ raised' = search(resp).exc
          /\ IF search(resp).exc = ""
             THEN pc' = pc /\ next_query' = next_query + 1
             ELSE pc' = "crashed" /\ next_query' = next_query
    /\ UNCHANGED <<api_token, page_chunks, clock, clock_step, lang, url, language_docs,
                   all_documents, stats, visits, calls, documents, i, results, requests,
                   responses, ret, search_ret, search_log, printed>>

\* main, lines 339-350: the stats file; open() and the write may fail
MainSave ==
    /\ pc = "test_search"
    /\ next_query > Len(test_queries)
    /\ \E written \in BOOLEAN :
          IF written THEN pc' = "done" /\ raised' = raised
          ELSE pc' = "crashed" /\ raised' = "OSError: crawler_stats.json"
    /\ UNCHANGED <<api_token, page_chunks, clock, clock_step, lang, url, language_docs,
                   all_documents, stats, visits, calls, documents, i, results, requests,
                   responses, ret, query, top_k, next_query, search_ret, search_log,
                   printed>>

\* search, lines 143-166, called directly
SearchCall ==
    /\ pc = "search"
    /\ \E resp \in SearchResponses(top_k) :
          /\ search_log' = Append(search_log, [request |-> search_request(query, top_k),
                                               response |-> resp])
          /\ search_ret' = search(resp).value
          /\ raised' = search(resp).exc
    /\ pc' = "search_returned"
    /\ UNCHANGED <<api_token, page_chunks, clock, clock_step, lang, url, language_docs,
                   all_documents, stats, visits, calls, documents, i, results, requests,
                   responses, ret, query, top_k, next_query, printed>>

Next ==
    \/ MainHealth
    \/ CrawlUrl
    \/ CrawlLanguageDone
    \/ CrawlIndex
    \/ AddDocumentsBatch
    \/ AddDocumentsReturn
    \/ CrawlIndexed
    \/ MainReport
    \/ MainSearch
    \/ MainSave

NextCrawl == CrawlUrl \/ CrawlLanguageDone \/ CrawlIndex

NextIndex == AddDocumentsBatch \/ AddDocumentsReturn

NextSearch == SearchCall

Spec == Init /\ [][Next]_vars

SpecCrawl == InitCrawl /\ [][NextCrawl]_vars

SpecIndex == InitIndex /\ [][NextIndex]_vars

SpecSearch == InitSearch /\ [][NextSearch]_vars

(***************************************************************************)
(* Vocabulary of the properties.                                           *)
(***************************************************************************)
\* ceil(n / batch_size)
NumBatches(n) == (n + batch_size - 1) \div batch_size

\* The endpoint answered HTTP 200 with a success flag of true
Accepted(resp) ==
    /\ resp.raises = ""
    /\ resp.status_code = 200
    /\ resp.body.valid
    /\ resp.body.object
    /\ "success" \in DOMAIN resp.body.fields
    /\ resp.body.fields["success"] = TRUE

\* The number of units the k-th request carried
Carried(k) == Len(requests[k].json.documents)

RECURSIVE CarriedWhere(_, _)
\* The units carried by the first k requests whose answer was accepted (or was not)
CarriedWhere(k, accepted) ==
    IF k = 0 THEN 0
    ELSE CarriedWhere(k - 1, accepted)
         + (IF Accepted(responses[k]) = accepted THEN Carried(k) ELSE 0)

\* The positions of the input list whose unit has been sent, and the unit of each
SentPositions == 1..Min(Len(requests) * batch_size, Len(documents))
UnitAt(p) == requests[((p - 1) \div batch_size) + 1].json.documents[((p - 1) % batch_size) + 1]

\* The unit carries the chunk: its text, and every metadata value of the chunk
\* that the indexer's own source tag does not replace
Carries(unit, doc) ==
    /\ unit.text = Truncate(doc.page_content, TextLimit)
    /\ \A key \in DOMAIN doc.metadata \ {"source"} :
          key \in DOMAIN unit.metadata /\ unit.metadata[key] = doc.metadata[key]

SameChunk(a, b) == a.page_content = b.page_content /\ a.metadata = b.metadata

(***************************************************************************)
(* C1: when add_documents returns, success + failed equals the number of   *)
(* chunks it was given, whatever the endpoint did with each batch; and at  *)
(* every point of the run failed is the sum of the sizes of the batches    *)
(* that were not accepted and success the sum of the sizes of those that   *)
(* were: a batch is counted whole.                                         *)
(***************************************************************************)
C1_CountsAddUp ==
    /\ pc = "add_documents_returned" => ret.success + ret.failed = Len(documents)
    /\ Len(responses) = Len(requests)
    /\ results.success = CarriedWhere(Len(requests), TRUE)
    /\ results.failed = CarriedWhere(Len(requests), FALSE)
    /\ results.success + results.failed = Min(i, Len(documents))

\* A returned run over three batches, the last one partial and refused, one accepted
C1_Witness ==
    /\ pc = "add_documents_returned"
    /\ Len(documents) = 2 * batch_size + 1
    /\ Len(responses) = 3
    /\ Accepted(responses[1])
    /\ responses[2].raises # ""
    /\ responses[3].raises = "" /\ responses[3].status_code = 200 /\ ~Accepted(responses[3])
    /\ ret.success = batch_size /\ ret.failed = batch_size + 1

(***************************************************************************)
(* C2: a run over N chunks issues exactly ceil(N/10) requests, one per     *)
(* batch whatever the answers (no retry); the k-th request carries the     *)
(* chunks at positions 10(k-1)+1 .. min(10k, N) of the input, in order:    *)
(* each request has between 1 and 10 units and only the last has fewer     *)
(* than 10.                                                                *)
(***************************************************************************)
C2_BatchesPartitionInput ==
    /\ pc = "add_documents_returned" => Len(requests) = NumBatches(Len(documents))
    /\ Len(requests) = NumBatches(Min(i, Len(documents)))
    /\ \A k \in 1..Len(requests) :
          /\ Carried(k) = Min(batch_size, Len(documents) - (k - 1) * batch_size)
          /\ Carried(k) >= 1
          /\ Carried(k) < batch_size => k = NumBatches(Len(documents))
          /\ \A j \in 1..Carried(k) :
                Carries(requests[k].json.documents[j], documents[(k - 1) * batch_size + j])

\* Three requests for 21 chunks that differ from their neighbours, two of them
\* refused: no refused batch was sent again
C2_Witness ==
    /\ pc = "add_documents_returned"
    /\ Len(documents) = 2 * batch_size + 1
    /\ documents[1] # documents[2]
    /\ Len(requests) = 3
    /\ Carried(3) = 1
    /\ ~Accepted(responses[1]) /\ ~Accepted(responses[2])

(***************************************************************************)
(* C3: a batch whose request does not end in HTTP 200 with success true    *)
(* adds its size to failed, appends exactly one string to errors, leaves   *)
(* success as it was, and leaves the loop running at the next batch; a     *)
(* returned run has sent every batch.                                      *)
(***************************************************************************)
ErrorStrings ==
    { "index is full", "Unknown error", "HTTP 500: Internal Server Error",
      "Read timed out. (read timeout=30)", "Expecting value: line 1 column 1 (char 0)",
      "'list' object has no attribute 'get'" }

BadBatchStep ==
    (/\ Len(responses') = Len(responses) + 1
     /\ ~Accepted(responses'[Len(responses')]))
    => /\ results'.failed = results.failed + Len(requests'[Len(requests')].json.documents)
       /\ results'.success = results.success
       /\ Len(results'.errors) = Len(results.errors) + 1
       /\ SubSeq(results'.errors, 1, Len(results.errors)) = results.errors
       /\ results'.errors[Len(results'.errors)] \in ErrorStrings
       /\ pc' = "add_documents"
       /\ i' = i + batch_size

C3_BadBatchCountedRunContinues ==
    /\ [][BadBatchStep]_vars
    /\ [](pc = "add_documents_returned" => Len(requests) = NumBatches(Len(documents)))

\* A refused first batch (HTTP 500) followed by a batch that was still sent
C3_Witness ==
    /\ Len(responses) >= 2
    /\ responses[1].raises = "" /\ responses[1].status_code = 500
    /\ Accepted(responses[2])
    /\ results.failed = batch_size
    /\ Len(results.errors) = 1

(***************************************************************************)
(* C8: every indexing request has an Authorization header exactly when a   *)
(* token is configured; with a token its value is 'Bearer <token>', and no *)
(* header of a request has the value None.                                 *)
(***************************************************************************)
C8_AuthorizationOnlyWithToken ==
    \A k \in 1..Len(requests) :
        /\ ("Authorization" \in DOMAIN requests[k].headers) <=> (api_token # "")
        /\ \A name \in DOMAIN requests[k].headers : requests[k].headers[name] # PyNone
        /\ api_token # "" =>
              requests[k].headers["Authorization"] = PyStr("Bearer " \o api_token)

(***************************************************************************)
(* C9: the id of a unit is a function of the chunk's text and metadata     *)
(* only: two units sent for chunks with the same text and the same         *)
(* metadata have the same id, in whatever batch and at whatever clock      *)
(* value each was built, and two units sent for chunks with the same text  *)
(* whose metadata differ have different ids.                               *)
(***************************************************************************)
C9_IdIsFunctionOfTextAndMetadata ==
    \A q \in SentPositions : \A p \in 1..(q - 1) :
        documents[p].page_content = documents[q].page_content
        => (documents[p].metadata = documents[q].metadata) <=> (UnitAt(p).id = UnitAt(q).id)

\* Identical chunks sent in two batches at two times with one id, and a chunk
\* with the same text from another page with another id
C9_Witness ==
    /\ Len(requests) >= 2
    /\ \E p \in SentPositions, q \in SentPositions :
          /\ p <= batch_size /\ q > batch_size
          /\ SameChunk(documents[p], documents[q])
          /\ UnitAt(p).metadata["indexed_at"] # UnitAt(q).metadata["indexed_at"]
          /\ UnitAt(p).id = UnitAt(q).id
    /\ \E p \in SentPositions, q \in SentPositions :
          /\ documents[p].page_content = documents[q].page_content
          /\ documents[p].metadata["source_url"] # documents[q].metadata["source_url"]
          /\ UnitAt(p).id # UnitAt(q).id

(***************************************************************************)
(* C10, as claimed: two units built from an identical chunk at different   *)
(* times (different indexed_at) have different ids.                        *)
(***************************************************************************)
C10_IdDependsOnIndexedAt ==
    \A q \in SentPositions : \A p \in 1..(q - 1) :
        (/\ SameChunk(documents[p], documents[q])
         /\ UnitAt(p).metadata["indexed_at"] # UnitAt(q).metadata["indexed_at"])
        => UnitAt(p).id # UnitAt(q).id

(***************************************************************************)
(* C10, as amended: the id does not depend on indexed_at.  Two units built *)
(* from an identical chunk at different times have the same id and the     *)
(* same text, and their metadata differ in indexed_at and in nothing else. *)
(***************************************************************************)
C10_IdIgnoresIndexedAt ==
    \A q \in SentPositions : \A p \in 1..(q - 1) :
        (/\ SameChunk(documents[p], documents[q])
         /\ UnitAt(p).metadata["indexed_at"] # UnitAt(q).metadata["indexed_at"])
        => /\ UnitAt(p).id = UnitAt(q).id
           /\ UnitAt(p).text = UnitAt(q).text
           /\ [UnitAt(p).metadata EXCEPT !["indexed_at"] = ""]
                 = [UnitAt(q).metadata EXCEPT !["indexed_at"] = ""]

\* Two neighbouring units of one batch, built from an identical chunk one
\* clock step apart
C10_Witness ==
    /\ Len(requests) = 1
    /\ Carried(1) >= 2
    /\ SameChunk(documents[1], documents[2])
    /\ UnitAt(1).metadata["indexed_at"] = isoformat(0)
    /\ UnitAt(2).metadata["indexed_at"] = isoformat(1)

(***************************************************************************)
(* C4: search never raises.  It returns the results field of an HTTP 200   *)
(* body, and the empty sequence when the body has no such field, when the  *)
(* status is not 200 and when the request or the parsing of the body       *)
(* raised.                                                                 *)
(***************************************************************************)
\* The results field of an HTTP 200 answer, when it has one
HasResults(resp) ==
    /\ resp.raises = ""
    /\ resp.status_code = 200
    /\ resp.body.valid
    /\ resp.body.object
    /\ "results" \in DOMAIN resp.body.fields

C4_SearchNeverRaises ==
    /\ raised = ""
    /\ pc = "search_returned" =>
          /\ Len(search_log) = 1
          /\ search_log[1].request.json.query = query
          /\ search_log[1].request.json.topK = top_k
          /\ IF HasResults(search_log[1].response)
             THEN search_ret = search_log[1].response.body.fields["results"]
             ELSE search_ret = << >>

\* A search whose request raised a transport exception returned the empty sequence
C4_Witness ==
    /\ pc = "search_returned"
    /\ search_log[1].response.raises = "Connection refused"
    /\ search_ret = << >>
    /\ raised = ""

(***************************************************************************)
(* C5: whatever urls fail to load, crawl_all_sources visits every url of   *)
(* every language in catalogue order; a url whose loader raised leaves no  *)
(* chunk behind; the count recorded for a language is the number of chunks *)
(* its loaded urls were split into; add_documents is called only once      *)
(* every language has been processed, with the chunks of the loaded urls   *)
(* in visiting order and nothing else, and it is called whenever there is  *)
(* such a chunk.                                                           *)
(***************************************************************************)
RECURSIVE Catalogue(_)
\* The (language, url) pairs of the catalogue from language l on, in order
Catalogue(l) ==
    IF l > Len(DOCUMENTATION_SOURCES) THEN << >>
    ELSE [k \in 1..Len(DOCUMENTATION_SOURCES[l].urls) |->
             [language |-> DOCUMENTATION_SOURCES[l].language,
              url |-> DOCUMENTATION_SOURCES[l].urls[k]]]
         \o Catalogue(l + 1)

RECURSIVE Collected(_)
\* What the first k visits collected: for each chunk its language, url and text
Collected(k) ==
    IF k = 0 THEN << >>
    ELSE Collected(k - 1)
         \o [j \in 1..Len(visits[k].texts) |->
                [language |-> visits[k].language, url |-> visits[k].url,
                 text |-> visits[k].texts[j]]]

\* The same three fields of the chunks of a list
Origin(docs) ==
    [j \in 1..Len(docs) |-> [language |-> docs[j].metadata["language"],
                             url |-> docs[j].metadata["source_url"],
                             text |-> docs[j].page_content]]

RECURSIVE CollectedFor(_, _)
\* The number of chunks the first k visits collected for a language
CollectedFor(k, language) ==
    IF k = 0 THEN 0
    ELSE CollectedFor(k - 1, language)
         + (IF visits[k].language = language THEN Len(visits[k].texts) ELSE 0)

CrawlFinished == lang > Len(DOCUMENTATION_SOURCES)

C6_RunAlwaysReports ==
    /\ raised \in {"", "OSError: crawler_stats.json"}
    /\ pc \in {"test_search", "done", "crashed"} =>
          /\ {"success", "failed", "errors"} \subseteq DOMAIN printed
          /\ printed.success = stats.indexing.success
          /\ printed.failed = stats.indexing.failed
          /\ Len(printed.errors) <= ErrorPreview

(***************************************************************************)
(* C7: when the crawl collected no chunk at all, no indexing request is    *)
(* issued and the indexing entry of the stats is the zero-valued           *)
(* IndexResult with its three fields: success 0, failed 0, errors empty.   *)
(***************************************************************************)
C7_NothingCollectedZeroResult ==
    (CrawlFinished /\ all_documents = << >> /\ "indexing" \in DOMAIN stats)
    => /\ requests = << >>
       /\ calls = << >>
       /\ DOMAIN stats.indexing = {"success", "failed", "errors"}
       /\ stats.indexing.success = 0
       /\ stats.indexing.failed = 0
       /\ stats.indexing.errors = << >>

====
